---- MODULE Spec2Model ----
(***************************************************************************)
(* Model of merge_request_dependencies.go: the three operations of         *)
(* MergeRequestDependenciesService (create, delete, list the "blocks"      *)
(* relations of a merge request), each one a sequence of parseID,          *)
(* fmt.Sprintf, client.NewRequest, client.Do and a return.                 *)
(*                                                                         *)
(* Strings are sequences of one-character strings, so that path            *)
(* construction, escaping and integer formatting are computed and a path   *)
(* can be split into its segments again.                                   *)
(***************************************************************************)
EXTENDS Integers, Sequences, FiniteSets, TLC

VARIABLES
    args,             \* per caller: the operation invoked and its arguments
    pc,               \* per caller: position in the operation's body
    project,          \* local `project`
    err,              \* local `err`
    u,                \* local `u` (the request path)
    req,              \* local `req`
    resp,             \* local `resp`
    mrd,              \* local `mrd` (decode target of the list operation)
    ret,              \* the values the call returned
    newRequestCalls,  \* per caller: number of client.NewRequest invocations
    newRequestOut,    \* per caller: what client.NewRequest produced
    doCalls,          \* per caller: the requests handed to client.Do, in order
    doOut             \* per caller: what client.Do produced

vars == <<args, pc, project, err, u, req, resp, mrd, ret,
          newRequestCalls, newRequestOut, doCalls, doOut>>

----------------------------------------------------------------------------
(* Bounds *)

MaxMergeRequest == 2
MaxBlockingID == 2
MaxRecords == 2
MaxRecordID == 2

Calls == {"caller1", "caller2"}

----------------------------------------------------------------------------
(* Values *)

NoError == "nil"
ErrInvalidID == "invalid ID type"
ErrNewRequest == "new request failed"
ErrTransport == "transport error"
ErrDecode == "decode error"

MethodPost == "POST"
MethodDelete == "DELETE"
MethodGet == "GET"

NoResp == [nil |-> TRUE, status |-> ""]
Response(st) == [nil |-> FALSE, status |-> st]

NilSlice == [nil |-> TRUE, items |-> <<>>]
Slice(s) == [nil |-> FALSE, items |-> s]

NilBody == [nil |-> TRUE, fields |-> {}]
Body(fields) == [nil |-> FALSE, fields |-> fields]

NoRequest == [method |-> "", path |-> <<>>, body |-> NilBody]

IntPID(n) == [kind |-> "int", num |-> n, str |-> <<>>]
StringPID(s) == [kind |-> "string", num |-> 0, str |-> s]
OtherPID == [kind |-> "other", num |-> 0, str |-> <<>>]

BlockingMergeRequest(i) ==
    [ID |-> 10 * i, Iid |-> i, Title |-> <<"t", i>>]

MergeRequestDependency(i) ==
    [ID |-> i, BlockingMergeRequest |-> BlockingMergeRequest(i), ProjectID |-> 1]

CreateMergeRequestDependencyOptions(id) == [BlockingMergeRequestID |-> id]

----------------------------------------------------------------------------
(* Strings *)

Digits == <<"0", "1", "2", "3", "4", "5", "6", "7", "8", "9">>

RECURSIVE FormatNat(_)
FormatNat(n) ==
    IF n < 10 THEN <<Digits[n + 1]>>
    ELSE FormatNat(n \div 10) \o <<Digits[(n % 10) + 1]>>

FormatInt(n) == IF n < 0 THEN <<"-">> \o FormatNat(-n) ELSE FormatNat(n)

Unreserved ==
    {"a", "b", "c", "g", "k", "l", "m", "o", "p", "q", "r", "s", "t", "u",
     "e", "j", "_", "-", "0", "1", "2", "3", "4", "5", "6", "7", "8", "9"}

EscapeChar(ch) ==
    CASE ch \in Unreserved -> <<ch>>
      [] ch = "/" -> <<"%", "2", "F">>
      [] ch = "%" -> <<"%", "2", "5">>
      [] ch = "." -> <<"%", "2", "E">>
      [] ch = " " -> <<"%", "2", "0">>
      [] OTHER -> <<"%", "3", "F">>

RECURSIVE PathEscape(_)
PathEscape(s) ==
    IF s = <<>> THEN <<>> ELSE EscapeChar(Head(s)) \o PathEscape(Tail(s))

parseID(id) ==
    CASE id.kind = "int" -> [id |-> FormatInt(id.num), err |-> NoError]
      [] id.kind = "string" -> [id |-> id.str, err |-> NoError]
      [] OTHER -> [id |-> <<>>, err |-> ErrInvalidID]

ProjectsPrefix == <<"p", "r", "o", "j", "e", "c", "t", "s", "/">>
MergeRequestsInfix ==
    <<"/", "m", "e", "r", "g", "e", "_", "r", "e", "q", "u", "e", "s", "t", "s", "/">>
BlocksSuffix == <<"/", "b", "l", "o", "c", "k", "s">>

GetPathUnescaped(proj, mergeRequest) ==
    ProjectsPrefix \o proj \o MergeRequestsInfix
        \o FormatInt(mergeRequest) \o BlocksSuffix

DeletePathWithoutBlocking(proj, mergeRequest, blockingMergeRequest) ==
    ProjectsPrefix \o PathEscape(proj) \o MergeRequestsInfix
        \o FormatInt(mergeRequest) \o BlocksSuffix

CreatePath(proj, mergeRequest) ==
    ProjectsPrefix \o PathEscape(proj) \o MergeRequestsInfix
        \o FormatInt(mergeRequest) \o BlocksSuffix

DeletePath(proj, mergeRequest, blockingMergeRequest) ==
    ProjectsPrefix \o PathEscape(proj) \o MergeRequestsInfix
        \o FormatInt(mergeRequest) \o BlocksSuffix
        \o <<"/">> \o FormatInt(blockingMergeRequest)

GetPath(proj, mergeRequest) ==
    ProjectsPrefix \o PathEscape(proj) \o MergeRequestsInfix
        \o FormatInt(mergeRequest) \o BlocksSuffix

EncodeOptionsUnnamed(opts) ==
    IF opts.BlockingMergeRequestID = 0 THEN {}
    ELSE {<<"id", opts.BlockingMergeRequestID>>}

EncodeOptions(opts) ==
    IF opts.BlockingMergeRequestID = 0 THEN {}
    ELSE {<<"blocking_merge_request_id", opts.BlockingMergeRequestID>>}

----------------------------------------------------------------------------
(* The transport collaborator *)

NewRequest(method, path, body) ==
    {[req |-> [method |-> method, path |-> path, body |-> body], err |-> NoError],
     [req |-> NoRequest, err |-> ErrNewRequest]}

RECURSIVE SeqsUpTo(_, _)
SeqsUpTo(S, n) ==
    IF n = 0 THEN {<<>>}
    ELSE LET shorter == SeqsUpTo(S, n - 1)
         IN  shorter \cup {Append(s, x) : s \in shorter, x \in S}

Records == {MergeRequestDependency(i) : i \in 1..MaxRecordID}

Decodes == {NilSlice} \cup {Slice(s) : s \in SeqsUpTo(Records, MaxRecords)}

Do(request, hasTarget) ==
    LET written == IF hasTarget THEN Decodes ELSE {NilSlice}
    IN  {[resp |-> Response("200"), err |-> NoError, decoded |-> d] : d \in written}
        \cup
        {[resp |-> r, err |-> e, decoded |-> d] :
            r \in {NoResp, Response("200"), Response("404")},
            e \in {ErrTransport, ErrDecode},
            d \in written}

NoDoOut == [resp |-> NoResp, err |-> NoError, decoded |-> NilSlice]
NoNewRequestOut == [req |-> NoRequest, err |-> NoError]

----------------------------------------------------------------------------
(* Calls *)

NoCall ==
    [op |-> "none", pid |-> OtherPID, mergeRequest |-> 0,
     blockingMergeRequest |-> 0, opts |-> CreateMergeRequestDependencyOptions(0)]

CreateCall(pid, mr, id) ==
    [op |-> "Create", pid |-> pid, mergeRequest |-> mr,
     blockingMergeRequest |-> 0, opts |-> CreateMergeRequestDependencyOptions(id)]

DeleteCall(pid, mr, blocking) ==
    [op |-> "Delete", pid |-> pid, mergeRequest |-> mr,
     blockingMergeRequest |-> blocking, opts |-> CreateMergeRequestDependencyOptions(0)]

GetCall(pid, mr) ==
    [op |-> "Get", pid |-> pid, mergeRequest |-> mr,
     blockingMergeRequest |-> 0, opts |-> CreateMergeRequestDependencyOptions(0)]

CallsOver(pids, mrs, blockings, ids) ==
    {CreateCall(p, n, i) : p \in pids, n \in mrs, i \in ids}
    \cup {DeleteCall(p, n, b) : p \in pids, n \in mrs, b \in blockings}
    \cup {GetCall(p, n) : p \in pids, n \in mrs}

PIDs ==
    {IntPID(1), IntPID(12), StringPID(<<"a", "/", "b">>),
     StringPID(<<"g", ".", "%", " ", "k">>), StringPID(<<"2">>),
     StringPID(<<"b", "l", "o", "c", "k", "s">>), StringPID(<<>>), OtherPID}

ConcurrentPIDs == {IntPID(1), StringPID(<<"a", "/", "b">>), OtherPID}

AllCalls ==
    CallsOver(PIDs, 1..MaxMergeRequest, 1..MaxBlockingID, 0..MaxBlockingID)

ConcurrentCalls ==
    CallsOver(ConcurrentPIDs, {1}, {MaxBlockingID}, {MaxBlockingID})

InitWith(a) ==
    /\ args = a
    /\ pc = [c \in Calls |-> IF a[c].op = "none" THEN "unused" ELSE "start"]
    /\ project = [c \in Calls |-> <<>>]
    /\ err = [c \in Calls |-> NoError]
    /\ u = [c \in Calls |-> <<>>]
    /\ req = [c \in Calls |-> NoRequest]
    /\ resp = [c \in Calls |-> NoResp]
    /\ mrd = [c \in Calls |-> NilSlice]
    /\ ret = [c \in Calls |-> [mrd |-> NilSlice, resp |-> NoResp, err |-> NoError]]
    /\ newRequestCalls = [c \in Calls |-> 0]
    /\ newRequestOut = [c \in Calls |-> NoNewRequestOut]
    /\ doCalls = [c \in Calls |-> <<>>]
    /\ doOut = [c \in Calls |-> NoDoOut]

Init ==
    \E a \in AllCalls :
        InitWith([c \in Calls |-> IF c = "caller1" THEN a ELSE NoCall])

InitConcurrent ==
    \E a \in [Calls -> ConcurrentCalls] : InitWith(a)

----------------------------------------------------------------------------
(* CreateMergeRequestDependency *)

CreateParseID(c) ==
    /\ pc[c] = "start"
    /\ LET p == parseID(args[c].pid)
       IN  /\ project' = [project EXCEPT ![c] = p.id]
           /\ err' = [err EXCEPT ![c] = p.err]
           /\ IF p.err # NoError
              THEN /\ ret' = [ret EXCEPT ![c] =
                                [mrd |-> NilSlice, resp |-> NoResp, err |-> p.err]]
                   /\ pc' = [pc EXCEPT ![c] = "returned"]
                   /\ u' = u
              ELSE /\ u' = [u EXCEPT ![c] = CreatePath(p.id, args[c].mergeRequest)]
                   /\ pc' = [pc EXCEPT ![c] = "parsed"]
                   /\ ret' = ret
    /\ UNCHANGED <<args, req, resp, mrd, newRequestCalls, newRequestOut,
                   doCalls, doOut>>

CreateNewRequest(c) ==
    /\ pc[c] = "parsed"
    /\ \E out \in NewRequest(MethodPost, u[c], Body(EncodeOptions(args[c].opts))) :
        /\ newRequestCalls' = [newRequestCalls EXCEPT ![c] = @ + 1]
        /\ newRequestOut' = [newRequestOut EXCEPT ![c] = out]
        /\ req' = [req EXCEPT ![c] = out.req]
        /\ err' = [err EXCEPT ![c] = out.err]
        /\ IF out.err # NoError
           THEN /\ ret' = [ret EXCEPT ![c] =
                             [mrd |-> NilSlice, resp |-> NoResp, err |-> out.err]]
                /\ pc' = [pc EXCEPT ![c] = "returned"]
           ELSE /\ pc' = [pc EXCEPT ![c] = "built"]
                /\ ret' = ret
    /\ UNCHANGED <<args, project, u, resp, mrd, doCalls, doOut>>

CreateDoRetrying(c) ==
    /\ pc[c] = "built"
    /\ \E out \in Do(req[c], FALSE) :
        /\ doCalls' = [doCalls EXCEPT ![c] = Append(@, req[c])]
        /\ doOut' = [doOut EXCEPT ![c] = out]
        /\ resp' = [resp EXCEPT ![c] = out.resp]
        /\ err' = [err EXCEPT ![c] = out.err]
        /\ pc' = [pc EXCEPT ![c] =
                    IF out.err # NoError /\ doCalls[c] = <<>>
                    THEN "built" ELSE "executed"]
    /\ UNCHANGED <<args, project, u, req, mrd, ret, newRequestCalls, newRequestOut>>

CreateDo(c) ==
    /\ pc[c] = "built"
    /\ \E out \in Do(req[c], FALSE) :
        /\ doCalls' = [doCalls EXCEPT ![c] = Append(@, req[c])]
        /\ doOut' = [doOut EXCEPT ![c] = out]
        /\ resp' = [resp EXCEPT ![c] = out.resp]
        /\ err' = [err EXCEPT ![c] = out.err]
        /\ pc' = [pc EXCEPT ![c] = "executed"]
    /\ UNCHANGED <<args, project, u, req, mrd, ret, newRequestCalls, newRequestOut>>

CreateResultDroppingResponse(r, e) ==
    IF e # NoError
    THEN [mrd |-> NilSlice, resp |-> NoResp, err |-> e]
    ELSE [mrd |-> NilSlice, resp |-> r, err |-> e]

CreateResult(r, e) ==
    IF e # NoError
    THEN [mrd |-> NilSlice, resp |-> r, err |-> e]
    ELSE [mrd |-> NilSlice, resp |-> r, err |-> e]

CreateReturn(c) ==
    /\ pc[c] = "executed"
    /\ ret' = [ret EXCEPT ![c] = CreateResult(resp[c], err[c])]
    /\ pc' = [pc EXCEPT ![c] = "returned"]
    /\ UNCHANGED <<args, project, err, u, req, resp, mrd, newRequestCalls,
                   newRequestOut, doCalls, doOut>>

CreateMergeRequestDependency(c) ==
    /\ args[c].op = "Create"
    /\ \/ CreateParseID(c)
       \/ CreateNewRequest(c)
       \/ CreateDo(c)
       \/ CreateReturn(c)

----------------------------------------------------------------------------
(* DeleteMergeRequestDependency *)

DeleteParseIDIgnoringError(c) ==
    /\ pc[c] = "start"
    /\ LET p == parseID(args[c].pid)
       IN  /\ project' = [project EXCEPT ![c] = p.id]
           /\ err' = [err EXCEPT ![c] = p.err]
           /\ u' = [u EXCEPT ![c] =
                      DeletePath(p.id, args[c].mergeRequest,
                                 args[c].blockingMergeRequest)]
           /\ pc' = [pc EXCEPT ![c] = "parsed"]
    /\ UNCHANGED <<args, req, resp, mrd, ret, newRequestCalls, newRequestOut,
                   doCalls, doOut>>

DeleteParseID(c) ==
    /\ pc[c] = "start"
    /\ LET p == parseID(args[c].pid)
       IN  /\ project' = [project EXCEPT ![c] = p.id]
           /\ err' = [err EXCEPT ![c] = p.err]
           /\ IF p.err # NoError
              THEN /\ ret' = [ret EXCEPT ![c] =
                                [mrd |-> NilSlice, resp |-> NoResp, err |-> p.err]]
                   /\ pc' = [pc EXCEPT ![c] = "returned"]
                   /\ u' = u
              ELSE /\ u' = [u EXCEPT ![c] =
                              DeletePath(p.id, args[c].mergeRequest,
                                         args[c].blockingMergeRequest)]
                   /\ pc' = [pc EXCEPT ![c] = "parsed"]
                   /\ ret' = ret
    /\ UNCHANGED <<args, req, resp, mrd, newRequestCalls, newRequestOut,
                   doCalls, doOut>>

DeleteNewRequest(c) ==
    /\ pc[c] = "parsed"
    /\ \E out \in NewRequest(MethodDelete, u[c], NilBody) :
        /\ newRequestCalls' = [newRequestCalls EXCEPT ![c] = @ + 1]
        /\ newRequestOut' = [newRequestOut EXCEPT ![c] = out]
        /\ req' = [req EXCEPT ![c] = out.req]
        /\ err' = [err EXCEPT ![c] = out.err]
        /\ IF out.err # NoError
           THEN /\ ret' = [ret EXCEPT ![c] =
                             [mrd |-> NilSlice, resp |-> NoResp, err |-> out.err]]
                /\ pc' = [pc EXCEPT ![c] = "returned"]
           ELSE /\ pc' = [pc EXCEPT ![c] = "built"]
                /\ ret' = ret
    /\ UNCHANGED <<args, project, u, resp, mrd, doCalls, doOut>>

DeleteDo(c) ==
    /\ pc[c] = "built"
    /\ \E out \in Do(req[c], FALSE) :
        /\ doCalls' = [doCalls EXCEPT ![c] = Append(@, req[c])]
        /\ doOut' = [doOut EXCEPT ![c] = out]
        /\ resp' = [resp EXCEPT ![c] = out.resp]
        /\ err' = [err EXCEPT ![c] = out.err]
        /\ pc' = [pc EXCEPT ![c] = "executed"]
    /\ UNCHANGED <<args, project, u, req, mrd, ret, newRequestCalls, newRequestOut>>

DeleteResult(r, e) ==
    IF e # NoError
    THEN [mrd |-> NilSlice, resp |-> r, err |-> e]
    ELSE [mrd |-> NilSlice, resp |-> r, err |-> e]

DeleteReturn(c) ==
    /\ pc[c] = "executed"
    /\ ret' = [ret EXCEPT ![c] = DeleteResult(resp[c], err[c])]
    /\ pc' = [pc EXCEPT ![c] = "returned"]
    /\ UNCHANGED <<args, project, err, u, req, resp, mrd, newRequestCalls,
                   newRequestOut, doCalls, doOut>>

DeleteMergeRequestDependency(c) ==
    /\ args[c].op = "Delete"
    /\ \/ DeleteParseID(c)
       \/ DeleteNewRequest(c)
       \/ DeleteDo(c)
       \/ DeleteReturn(c)

----------------------------------------------------------------------------
(* GetMergeRequestDependencies *)

GetParseID(c) ==
    /\ pc[c] = "start"
    /\ LET p == parseID(args[c].pid)
       IN  /\ project' = [project EXCEPT ![c] = p.id]
           /\ err' = [err EXCEPT ![c] = p.err]
           /\ IF p.err # NoError
              THEN /\ ret' = [ret EXCEPT ![c] =
                                [mrd |-> NilSlice, resp |-> NoResp, err |-> p.err]]
                   /\ pc' = [pc EXCEPT ![c] = "returned"]
                   /\ u' = u
              ELSE /\ u' = [u EXCEPT ![c] = GetPath(p.id, args[c].mergeRequest)]
                   /\ pc' = [pc EXCEPT ![c] = "parsed"]
                   /\ ret' = ret
    /\ UNCHANGED <<args, req, resp, mrd, newRequestCalls, newRequestOut,
                   doCalls, doOut>>

GetNewRequestIgnoringError(c) ==
    /\ pc[c] = "parsed"
    /\ \E out \in NewRequest(MethodGet, u[c], NilBody) :
        /\ newRequestCalls' = [newRequestCalls EXCEPT ![c] = @ + 1]
        /\ newRequestOut' = [newRequestOut EXCEPT ![c] = out]
        /\ req' = [req EXCEPT ![c] = out.req]
        /\ err' = [err EXCEPT ![c] = out.err]
        /\ pc' = [pc EXCEPT ![c] = "built"]
    /\ UNCHANGED <<args, project, u, resp, mrd, ret, doCalls, doOut>>

GetNewRequest(c) ==
    /\ pc[c] = "parsed"
    /\ \E out \in NewRequest(MethodGet, u[c], NilBody) :
        /\ newRequestCalls' = [newRequestCalls EXCEPT ![c] = @ + 1]
        /\ newRequestOut' = [newRequestOut EXCEPT ![c] = out]
        /\ req' = [req EXCEPT ![c] = out.req]
        /\ err' = [err EXCEPT ![c] = out.err]
        /\ IF out.err # NoError
           THEN /\ ret' = [ret EXCEPT ![c] =
                             [mrd |-> NilSlice, resp |-> NoResp, err |-> out.err]]
                /\ pc' = [pc EXCEPT ![c] = "returned"]
           ELSE /\ pc' = [pc EXCEPT ![c] = "built"]
                /\ ret' = ret
    /\ UNCHANGED <<args, project, u, resp, mrd, doCalls, doOut>>

GetDoSharedTarget(c) ==
    /\ pc[c] = "built"
    /\ \E out \in Do(req[c], TRUE) :
        /\ doCalls' = [doCalls EXCEPT ![c] = Append(@, req[c])]
        /\ doOut' = [doOut EXCEPT ![c] = out]
        /\ mrd' = [d \in Calls |-> out.decoded]
        /\ resp' = [resp EXCEPT ![c] = out.resp]
        /\ err' = [err EXCEPT ![c] = out.err]
        /\ pc' = [pc EXCEPT ![c] = "executed"]
    /\ UNCHANGED <<args, project, u, req, ret, newRequestCalls, newRequestOut>>

GetDo(c) ==
    /\ pc[c] = "built"
    /\ \E out \in Do(req[c], TRUE) :
        /\ doCalls' = [doCalls EXCEPT ![c] = Append(@, req[c])]
        /\ doOut' = [doOut EXCEPT ![c] = out]
        /\ mrd' = [mrd EXCEPT ![c] = out.decoded]
        /\ resp' = [resp EXCEPT ![c] = out.resp]
        /\ err' = [err EXCEPT ![c] = out.err]
        /\ pc' = [pc EXCEPT ![c] = "executed"]
    /\ UNCHANGED <<args, project, u, req, ret, newRequestCalls, newRequestOut>>

GetResultKeepingPartial(m, r, e) ==
    [mrd |-> m, resp |-> r, err |-> e]

GetResultTruncating(m, r, e) ==
    IF e # NoError
    THEN [mrd |-> NilSlice, resp |-> r, err |-> e]
    ELSE [mrd |-> [m EXCEPT !.items = IF @ = <<>> THEN @ ELSE <<Head(@)>>],
          resp |-> r, err |-> e]

GetResult(m, r, e) ==
    IF e # NoError
    THEN [mrd |-> NilSlice, resp |-> r, err |-> e]
    ELSE [mrd |-> m, resp |-> r, err |-> e]

GetReturn(c) ==
    /\ pc[c] = "executed"
    /\ ret' = [ret EXCEPT ![c] = GetResult(mrd[c], resp[c], err[c])]
    /\ pc' = [pc EXCEPT ![c] = "returned"]
    /\ UNCHANGED <<args, project, err, u, req, resp, mrd, newRequestCalls,
                   newRequestOut, doCalls, doOut>>

GetMergeRequestDependencies(c) ==
    /\ args[c].op = "Get"
    /\ \/ GetParseID(c)
       \/ GetNewRequest(c)
       \/ GetDo(c)
       \/ GetReturn(c)

----------------------------------------------------------------------------

Next ==
    \E c \in Calls :
        \/ CreateMergeRequestDependency(c)
        \/ DeleteMergeRequestDependency(c)
        \/ GetMergeRequestDependencies(c)

Spec == Init /\ [][Next]_vars

SpecConcurrent == InitConcurrent /\ [][Next]_vars

----------------------------------------------------------------------------
(* Properties *)

Started(c) == args[c].op # "none"
Returned(c) == pc[c] = "returned"
Executed(c) == Len(doCalls[c]) > 0
Failed(c) == Executed(c) /\ doOut[c].err # NoError
Succeeded(c) == Executed(c) /\ doOut[c].err = NoError
ValidID(c) == Started(c) /\ parseID(args[c].pid).err = NoError
InvalidID(c) == Started(c) /\ parseID(args[c].pid).err # NoError
PathBuilt(c) == ValidID(c) /\ pc[c] \in {"parsed", "built", "executed", "returned"}

RECURSIVE SplitFrom(_, _)
SplitFrom(s, cur) ==
    IF s = <<>> THEN <<cur>>
    ELSE IF Head(s) = "/" THEN <<cur>> \o SplitFrom(Tail(s), <<>>)
    ELSE SplitFrom(Tail(s), Append(cur, Head(s)))

Segments(path) == SplitFrom(path, <<>>)

Occurrences(segs, x) == Cardinality({i \in 1..Len(segs) : segs[i] = x})

EscapedID(c) == PathEscape(parseID(args[c].pid).id)

SegProjects == <<"p", "r", "o", "j", "e", "c", "t", "s">>
SegMergeRequests ==
    <<"m", "e", "r", "g", "e", "_", "r", "e", "q", "u", "e", "s", "t", "s">>
SegBlocks == <<"b", "l", "o", "c", "k", "s">>

\* C1: a call with an invalid parent identifier invokes neither NewRequest
\* nor Do and returns an error with nil response metadata and a nil sequence.
InvalidIdentifierSendsNothing ==
    \A c \in Calls :
        InvalidID(c) =>
            /\ newRequestCalls[c] = 0
            /\ doCalls[c] = <<>>
            /\ Returned(c) =>
                /\ ret[c].err # NoError
                /\ ret[c].resp = NoResp
                /\ ret[c].mrd = NilSlice

InvalidIdentifierReturned ==
    \E c \in Calls : InvalidID(c) /\ Returned(c) /\ args[c].op = "Delete"

\* C2: when Do returned an error, the call returns that same error and an
\* empty result: the list operation returns a nil sequence whatever Do had
\* written into the decode target.
TransportErrorPropagated ==
    \A c \in Calls :
        (Returned(c) /\ Failed(c)) =>
            /\ ret[c].err = doOut[c].err
            /\ ret[c].mrd = NilSlice

PartialDecodeThenError ==
    \E c \in Calls :
        /\ Returned(c) /\ Failed(c) /\ args[c].op = "Get"
        /\ Len(doOut[c].decoded.items) > 0
        /\ mrd[c] = doOut[c].decoded

\* C3: when Do returned (resp, err) with err set, the call returns exactly
\* that resp, nil or not, together with exactly that err.
ResponseMetadataPreserved ==
    \A c \in Calls :
        (Returned(c) /\ Failed(c)) =>
            /\ ret[c].resp = doOut[c].resp
            /\ ret[c].err = doOut[c].err

FailedWithResponse ==
    \E c \in Calls :
        /\ Returned(c) /\ Failed(c) /\ args[c].op = "Create"
        /\ ~doOut[c].resp.nil

\* C4: a call invokes Do at most once, never again after a failure, exactly
\* once when the identifier and the request construction were fine, and the
\* request is a POST for create, a DELETE for delete and a GET for list.
ExactlyOneRequestCycle ==
    \A c \in Calls :
        /\ Len(doCalls[c]) <= 1
        /\ newRequestCalls[c] <= 1
        /\ (Returned(c) /\ ValidID(c) /\ newRequestCalls[c] = 1
                /\ newRequestOut[c].err = NoError) => Len(doCalls[c]) = 1
        /\ Executed(c) =>
              doCalls[c][1].method =
                  CASE args[c].op = "Create" -> "POST"
                    [] args[c].op = "Delete" -> "DELETE"
                    [] args[c].op = "Get" -> "GET"

FailedOnceAndReturned ==
    \E c \in Calls :
        Returned(c) /\ Failed(c) /\ args[c].op = "Create" /\ Len(doCalls[c]) = 1

\* C5 as stated: the path holds the escaped identifier in the segment after
\* "projects/" and nowhere else, whatever the identifier and the numbers.
EscapedIdentifierExactlyOnce ==
    \A c \in Calls :
        PathBuilt(c) =>
            /\ Segments(u[c])[2] = EscapedID(c)
            /\ Occurrences(Segments(u[c]), EscapedID(c)) = 1

\* C5: the identifier contributes exactly one segment, the one right after
\* "projects/", which is the escaped identifier; any other segment equal to
\* it is the text of the dependent or blocking number or a literal segment
\* of the template, so it occurs once when it differs from all of these.
EscapedIdentifierInPosition ==
    \A c \in Calls :
        PathBuilt(c) =>
            LET segs == Segments(u[c])
                others == {SegMergeRequests, SegBlocks,
                           FormatInt(args[c].mergeRequest)}
                          \cup (IF args[c].op = "Delete"
                                THEN {FormatInt(args[c].blockingMergeRequest)}
                                ELSE {})
            IN  /\ Len(segs) = IF args[c].op = "Delete" THEN 6 ELSE 5
                /\ segs[1] = SegProjects
                /\ segs[2] = EscapedID(c)
                /\ \A i \in 3..Len(segs) : segs[i] \in others
                /\ EscapedID(c) \notin others =>
                       Occurrences(segs, EscapedID(c)) = 1

EscapedSlashInPath ==
    \E c \in Calls :
        /\ PathBuilt(c) /\ args[c].op = "Get"
        /\ args[c].pid = StringPID(<<"a", "/", "b">>)
        /\ Segments(u[c])[2] = <<"a", "%", "2", "F", "b">>

\* C6 as stated: the POST of create carries blocking_merge_request_id with
\* the value of the options, for every value including zero.
CreateCarriesBlockingID ==
    \A c \in Calls :
        (Executed(c) /\ args[c].op = "Create") =>
            /\ doCalls[c][1].method = "POST"
            /\ <<"blocking_merge_request_id", args[c].opts.BlockingMergeRequestID>>
                   \in doCalls[c][1].body.fields

\* C6: the POST of create carries blocking_merge_request_id with the value
\* of the options for every value other than zero; for zero the field is
\* left out of the body.
CreateCarriesNonZeroBlockingID ==
    \A c \in Calls :
        (Executed(c) /\ args[c].op = "Create") =>
            LET id == args[c].opts.BlockingMergeRequestID
                sent == doCalls[c][1]
            IN  /\ sent.method = "POST"
                /\ ~sent.body.nil
                /\ id # 0 => sent.body.fields = {<<"blocking_merge_request_id", id>>}
                /\ id = 0 => sent.body.fields = {}

CreateSentNonZeroID ==
    \E c \in Calls :
        /\ Executed(c) /\ args[c].op = "Create"
        /\ args[c].opts.BlockingMergeRequestID = MaxBlockingID

\* C7: create and list target projects/<escaped p>/merge_requests/<n>/blocks,
\* delete targets that path with /<blockingNumber> appended; create carries
\* the options as body, delete and list carry none.
PathTemplateMapping ==
    \A c \in Calls :
        /\ PathBuilt(c) =>
              LET base == <<SegProjects, EscapedID(c), SegMergeRequests,
                            FormatInt(args[c].mergeRequest), SegBlocks>>
              IN  Segments(u[c]) =
                      IF args[c].op = "Delete"
                      THEN Append(base, FormatInt(args[c].blockingMergeRequest))
                      ELSE base
        /\ Executed(c) =>
              /\ doCalls[c][1].path = u[c]
              /\ doCalls[c][1].body.nil = (args[c].op # "Create")

DeleteSent ==
    \E c \in Calls :
        /\ Executed(c) /\ args[c].op = "Delete"
        /\ args[c].mergeRequest # args[c].blockingMergeRequest
        /\ Len(Segments(doCalls[c][1].path)) = 6

\* C8: a successful list returns the sequence Do decoded, with the same
\* length, order and records, together with a nil error.
ListReturnsDecoded ==
    \A c \in Calls :
        (Returned(c) /\ Succeeded(c) /\ args[c].op = "Get") =>
            /\ ret[c].mrd = doOut[c].decoded
            /\ ret[c].err = NoError
            /\ ret[c].resp = doOut[c].resp

ListReturnedTwoRecords ==
    \E c \in Calls :
        /\ Returned(c) /\ Succeeded(c) /\ args[c].op = "Get"
        /\ ret[c].mrd.items =
               <<MergeRequestDependency(2), MergeRequestDependency(1)>>

ExpectedRequest(a) ==
    LET id == parseID(a.pid).id
    IN  CASE a.op = "Create" ->
               [method |-> MethodPost,
                path |-> CreatePath(id, a.mergeRequest),
                body |-> Body(EncodeOptions(a.opts))]
          [] a.op = "Delete" ->
               [method |-> MethodDelete,
                path |-> DeletePath(id, a.mergeRequest, a.blockingMergeRequest),
                body |-> NilBody]
          [] a.op = "Get" ->
               [method |-> MethodGet,
                path |-> GetPath(id, a.mergeRequest),
                body |-> NilBody]

\* C9: under every interleaving of concurrent calls, the request of a call
\* is the one its own arguments determine, and what it returns is what Do
\* produced for that call: its response metadata and error, and its decoded
\* sequence (nil when Do failed).
CallsIsolated ==
    \A c \in Calls :
        /\ Executed(c) => doCalls[c] = <<ExpectedRequest(args[c])>>
        /\ (Returned(c) /\ Executed(c)) =>
              /\ ret[c].resp = doOut[c].resp
              /\ ret[c].err = doOut[c].err
              /\ ret[c].mrd =
                    IF doOut[c].err = NoError /\ args[c].op = "Get"
                    THEN doOut[c].decoded ELSE NilSlice

OverlappingLists ==
    \E c, d \in Calls :
        /\ c # d
        /\ args[c].op = "Get" /\ args[d].op = "Get"
        /\ Returned(c) /\ Succeeded(c)
        /\ pc[d] = "executed" /\ Succeeded(d)
        /\ doOut[c].decoded # doOut[d].decoded
        /\ Len(ret[c].mrd.items) > 0

\* C10: the steps run in the order parseID, NewRequest, Do; when NewRequest
\* returns an error the call returns that error with nil response metadata
\* and a nil sequence, and Do is not invoked.
ConstructionFailureStopsCall ==
    \A c \in Calls :
        /\ newRequestCalls[c] > 0 => ValidID(c)
        /\ Executed(c) => (newRequestCalls[c] = 1 /\ newRequestOut[c].err = NoError)
        /\ (newRequestCalls[c] > 0 /\ newRequestOut[c].err # NoError) =>
              /\ doCalls[c] = <<>>
              /\ Returned(c)
              /\ ret[c].err = newRequestOut[c].err
              /\ ret[c].resp = NoResp
              /\ ret[c].mrd = NilSlice

ConstructionFailed ==
    \E c \in Calls :
        /\ args[c].op = "Get" /\ Returned(c)
        /\ newRequestCalls[c] = 1 /\ newRequestOut[c].err = ErrNewRequest

====
